---- MODULE Spec2Model ----
(***************************************************************************)
(* delivery-cdk: carrier adapters (UPS, FedEx, Nova Poshta), their OAuth   *)
(* token caches, the carrier registry and the status mappers.              *)
(*                                                                         *)
(* Every track() invocation is an async function: it runs to its next      *)
(* await without interruption (JavaScript run-to-completion), and other    *)
(* invocations and network responses interleave only at the awaits on      *)
(* network I/O.  One action of the model is one such uninterrupted run.    *)
(***************************************************************************)
EXTENDS Integers, Sequences, FiniteSets, TLC

\* ---------------------------------------------------------------- bounds
MaxCalls == 2        \* track() invocations in one behaviour
MaxTicks == 2        \* clock advances in one behaviour
MaxRegistrations == 3   \* CarrierRegistry.register calls in one behaviour
MaxStatusCode == 113    \* Nova Poshta status codes 0..MaxStatusCode are tried

\* ------------------------------------------------------ program constants
TRACKING_NUMBER_MAX == 50     \* trackingNumber.length > 50
DEFAULT_EXPIRES_IN == 3600    \* Number(data.expires_in) || 3600
MIN_EXPIRES_IN == 120         \* Math.max(..., 120)
SAFETY_MARGIN == 60           \* (expiresIn - 60)
MS_PER_SECOND == 1000         \* ... * 1000

\* The clock (Date.now(), in ms) advances in steps of the safety margin.
TickMs == SAFETY_MARGIN * MS_PER_SECOND

\* ------------------------------------------------------------ JS values
\* A JavaScript number is a finite integer or NaN.
Num(n) == [nan |-> FALSE, v |-> n]
NaN == [nan |-> TRUE, v |-> 0]
\* a < b in JavaScript: false as soon as one side is NaN.
JSLess(a, b) == ~a.nan /\ ~b.nan /\ a.v < b.v
JSAdd(a, b) == IF a.nan \/ b.nan THEN NaN ELSE Num(a.v + b.v)
JSMul(a, b) == IF a.nan \/ b.nan THEN NaN ELSE Num(a.v * b.v)
JSMax(a, b) == IF a.nan \/ b.nan THEN NaN ELSE Num(IF a.v >= b.v THEN a.v ELSE b.v)
\* x || d on numbers: NaN and 0 are falsy.
JSOr(a, d) == IF a.nan \/ a.v = 0 THEN d ELSE a
\* Number(x) and arithmetic on a JSON field that may be absent (<<>>) or <<n>>.
JSNumber(field) == IF field = <<>> THEN NaN ELSE Num(field[1])

\* Credential sets; createXCarrier(config) makes one adapter instance per config.
Configs == {"A", "B"}

\* A bearer token issued by an OAuth endpoint: the server answers the credentials
\* presented and never issues the same token twice (serial = request number).
\* UndefinedToken is the JavaScript value undefined (no access_token field).
UndefinedToken == [cred |-> "undefined", serial |-> 0]
IssuedToken(cfg, n) == [cred |-> cfg, serial |-> n]

\* JSON bodies the token endpoint may send with a success status.
ExpiresInFields == {<<>>, <<SAFETY_MARGIN>>, <<MIN_EXPIRES_IN>>}
TokenBodies(cfg, n) ==
    { [access_token |-> tok, expires_in |-> e] :
        tok \in {UndefinedToken, IssuedToken(cfg, n)}, e \in ExpiresInFields }

\* Answers of a tracking endpoint: a non-success status; a success status whose
\* body holds no shipment/package/result; a success status with one.
TrackingResponses == {"error status", "no data", "data"}

\* Tracking numbers are modelled by their length.
TrackingNumberLengths == {0, TRACKING_NUMBER_MAX, TRACKING_NUMBER_MAX + 1}

\* FedEx track() never reads its tracking number: one length stands for all.
FedExTrackingNumberLengths == {TRACKING_NUMBER_MAX}

Calls == 1..MaxCalls

VARIABLES
    now,              \* Date.now()
    upsCachedToken,   \* createUPSCarrier closure: cachedToken, per instance
    upsTokenPromise,  \* createUPSCarrier closure: tokenPromise, per instance (0 = null)
    fedexCachedToken, \* fedex module: let cachedToken
    legacyCachedToken,\* src/carriers/ups.ts module: let cachedToken
    tokenReqs,        \* requests sent to an OAuth token endpoint, in order
    calls,            \* the track() invocations
    ticks,            \* clock advances so far
    carriers,         \* CarrierRegistry: the Map, as its entries in insertion order
    registered,       \* the arguments of the register() calls so far, in order
    fnIn,             \* the argument of the pure function being applied (<<>>: none)
    fnOut             \* what it returned (<<>>: not called yet)

adapterVars == <<now, upsCachedToken, upsTokenPromise, fedexCachedToken,
                 legacyCachedToken, tokenReqs, calls, ticks>>
registryVars == <<carriers, registered>>
fnVars == <<fnIn, fnOut>>
vars == <<adapterVars, registryVars, fnVars>>

IdleCall == [pc |-> "idle", adapter |-> "none", config |-> "none", tn |-> 0,
             req |-> 0, token |-> UndefinedToken, outcome |-> "none"]

\* The adapters after createXCarrier(config): nothing cached, nothing in flight.
InitAdapters ==
    /\ now = 0
    /\ upsCachedToken = [k \in Configs |-> <<>>]
    /\ upsTokenPromise = [k \in Configs |-> 0]
    /\ fedexCachedToken = <<>>
    /\ legacyCachedToken = <<>>
    /\ tokenReqs = <<>>
    /\ calls = [c \in Calls |-> IdleCall]
    /\ ticks = 0

\* private carriers = new Map<CarrierCode, Carrier>()
InitRegistry ==
    /\ carriers = <<>>
    /\ registered = <<>>

InitNoFunction ==
    /\ fnIn = <<>>
    /\ fnOut = <<>>

Init == InitAdapters /\ InitRegistry /\ InitNoFunction

\* Invocations are numbered in their order of arrival.  The adapters share no
\* state but the clock, so a behaviour drives one of them: the adapter that the
\* first invocation picks.
NextToArrive(c, adapter) ==
    /\ calls[c].pc = "idle"
    /\ IF c = 1 THEN TRUE ELSE calls[c - 1].pc # "idle"
    /\ \A d \in Calls : calls[d].adapter \in {"none", adapter}

\* The end of an invocation: its locals (config, the awaited promise, the token)
\* go out of scope; what the caller sees is the outcome and the tracking number
\* carried by the result or by the error message.
Finish(cs, c, pc, kind) ==
    [cs EXCEPT ![c] = [IdleCall EXCEPT !.pc = pc, !.adapter = cs[c].adapter,
                                       !.tn = cs[c].tn, !.outcome = kind]]

\* throw new Error(...) out of track(): the invocation ends without a result.
Fail(c, kind) == Finish(calls, c, "failed", kind)

\* return { carrier, trackingNumber, status, estimatedDelivery, events }
Return(c) == Finish(calls, c, "returned", "TrackingResult")

\* const res = await fetch(<tracking endpoint>, { Authorization: `Bearer ${token}` })
SendTracking(cs, c, token) ==
    [cs EXCEPT ![c].pc = "trackFetch", ![c].token = token, ![c].req = 0]

\* ===================================================== UPS (createUPSCarrier)
\* if (!trackingNumber || trackingNumber.length > 50)
UPSInvalidTrackingNumber(tn) == tn = 0 \/ tn > TRACKING_NUMBER_MAX

\* if (cachedToken && Date.now() < cachedToken.expiresAt)
UPSCacheValid(cache) == cache # <<>> /\ JSLess(Num(now), cache[1].expiresAt)

\* Mutant: getAccessToken() without the in-flight check.
UPSRefreshInFlight_Unchecked(k) == FALSE

\* if (!tokenPromise): a refresh of instance k is in flight
UPSRefreshInFlight(k) == upsTokenPromise[k] # 0

\* Mutant: the marker is cleared by .then(), so a rejection leaves it set.
UPSFinally_OnSuccessOnly(k) ==
    IF \E r \in DOMAIN tokenReqs : tokenReqs'[r].state = "rejected" /\ tokenReqs[r].state # "rejected"
    THEN upsTokenPromise
    ELSE [upsTokenPromise EXCEPT ![k] = 0]

\* .finally(() => { tokenPromise = null; })
UPSFinally(k) == [upsTokenPromise EXCEPT ![k] = 0]

\* track(trackingNumber) up to its first await: the guard, then getAccessToken()
\* (and fetchNewToken() up to its fetch when no refresh is in flight).
UPSTrack(c, k, tn) ==
    /\ NextToArrive(c, "ups")
    /\ LET started == [calls EXCEPT ![c].adapter = "ups", ![c].config = k, ![c].tn = tn]
       IN
       IF UPSInvalidTrackingNumber(tn)
       THEN /\ calls' = Finish(started, c, "failed", "InvalidInput")
            /\ UNCHANGED <<tokenReqs, upsTokenPromise>>
       ELSE IF UPSCacheValid(upsCachedToken[k])
       THEN /\ calls' = SendTracking(started, c, upsCachedToken[k][1].token)
            /\ UNCHANGED <<tokenReqs, upsTokenPromise>>
       ELSE IF ~UPSRefreshInFlight(k)
       THEN /\ tokenReqs' = Append(tokenReqs,
                    [adapter |-> "ups", config |-> k, state |-> "fetch",
                     token |-> UndefinedToken])
            /\ upsTokenPromise' = [upsTokenPromise EXCEPT ![k] = Len(tokenReqs) + 1]
            /\ calls' = [started EXCEPT ![c].pc = "awaitToken",
                                        ![c].req = Len(tokenReqs) + 1]
       ELSE /\ calls' = [started EXCEPT ![c].pc = "awaitToken",
                                        ![c].req = upsTokenPromise[k]]
            /\ UNCHANGED <<tokenReqs, upsTokenPromise>>
    /\ UNCHANGED <<registryVars, fnVars>>
    /\ UNCHANGED <<now, upsCachedToken, fedexCachedToken, legacyCachedToken, ticks>>

\* fetchNewToken(): the token endpoint answers request r.  A non-success status
\* rejects the promise and .finally() clears tokenPromise; a success status
\* goes on to await res.json().
UPSTokenResponse(r, ok) ==
    /\ r \in DOMAIN tokenReqs
    /\ tokenReqs[r].adapter = "ups"
    /\ tokenReqs[r].state = "fetch"
    /\ IF ok
       THEN /\ tokenReqs' = [tokenReqs EXCEPT ![r].state = "json"]
            /\ UNCHANGED upsTokenPromise
       ELSE /\ tokenReqs' = [tokenReqs EXCEPT ![r].state = "rejected"]
            /\ upsTokenPromise' = UPSFinally(tokenReqs[r].config)
    /\ UNCHANGED <<registryVars, fnVars>>
    /\ UNCHANGED <<now, upsCachedToken, fedexCachedToken, legacyCachedToken, calls, ticks>>

\* const expiresIn = Math.max(Number(data.expires_in) || 3600, 120);
UPSExpiresIn(body) ==
    JSMax(JSOr(JSNumber(body.expires_in), Num(DEFAULT_EXPIRES_IN)), Num(MIN_EXPIRES_IN))

\* expiresAt: Date.now() + (expiresIn - 60) * 1000
UPSExpiresAt(body) ==
    JSAdd(Num(now), JSMul(JSAdd(UPSExpiresIn(body), Num(-SAFETY_MARGIN)), Num(MS_PER_SECOND)))

\* if (!data.access_token) throw
UPSBodyRejected(body) == body.access_token = UndefinedToken

\* fetchNewToken() after await res.json(): reject on a missing access_token, else
\* store cachedToken and fulfil; .finally() clears tokenPromise either way.
UPSTokenBody(r, body) ==
    /\ r \in DOMAIN tokenReqs
    /\ tokenReqs[r].adapter = "ups"
    /\ tokenReqs[r].state = "json"
    /\ LET k == tokenReqs[r].config IN
       /\ body \in TokenBodies(k, r)
       /\ IF UPSBodyRejected(body)
          THEN /\ tokenReqs' = [tokenReqs EXCEPT ![r].state = "rejected"]
               /\ UNCHANGED upsCachedToken
          ELSE /\ tokenReqs' = [tokenReqs EXCEPT ![r].state = "fulfilled",
                                                 ![r].token = body.access_token]
               /\ upsCachedToken' = [upsCachedToken EXCEPT ![k] =
                      << [token |-> body.access_token, expiresAt |-> UPSExpiresAt(body)] >>]
       /\ upsTokenPromise' = UPSFinally(k)
    /\ UNCHANGED <<registryVars, fnVars>>
    /\ UNCHANGED <<now, fedexCachedToken, legacyCachedToken, calls, ticks>>

\* const token = await getAccessToken(): the awaited promise has settled.
UPSTokenResolved(c) ==
    /\ calls[c].adapter = "ups"
    /\ calls[c].pc = "awaitToken"
    /\ LET r == calls[c].req IN
       /\ tokenReqs[r].state \in {"fulfilled", "rejected"}
       /\ calls' = IF tokenReqs[r].state = "rejected"
                   THEN Fail(c, "AuthError")
                   ELSE SendTracking(calls, c, tokenReqs[r].token)
    /\ UNCHANGED <<registryVars, fnVars>>
    /\ UNCHANGED <<now, upsCachedToken, upsTokenPromise, fedexCachedToken,
                   legacyCachedToken, tokenReqs, ticks>>

\* if (!res.ok) throw new Error(`UPS tracking failed`)
\* const pkg = shipment?.package?.[0]; if (!pkg) throw new Error(`No tracking data`)
\* return { carrier: 'ups', trackingNumber, status, estimatedDelivery, events }
\* (the await res.json() between the two checks touches no state and is not a step)
UPSTrackingResponse(c, resp) ==
    /\ calls[c].adapter = "ups"
    /\ calls[c].pc = "trackFetch"
    /\ resp \in TrackingResponses
    /\ calls' = CASE resp = "error status" -> Fail(c, "UpstreamError")
                  [] resp = "no data" -> Fail(c, "NotFound")
                  [] OTHER -> Return(c)
    /\ UNCHANGED <<registryVars, fnVars>>
    /\ UNCHANGED <<now, upsCachedToken, upsTokenPromise, fedexCachedToken,
                   legacyCachedToken, tokenReqs, ticks>>

\* ======================================================= FedEx (fedex module)
\* expiresAt: Date.now() + (data.expires_in - 60) * 1000
FedExExpiresAt(body) ==
    JSAdd(Num(now), JSMul(JSAdd(JSNumber(body.expires_in), Num(-SAFETY_MARGIN)),
                          Num(MS_PER_SECOND)))

\* getAccessToken(config) reads the module's cachedToken, whatever the instance.
FedExCacheFor(k) == fedexCachedToken

\* Mutant: Date.now() <= cachedToken.expiresAt
FedExCacheValid_AtExpiry(cache) ==
    cache # <<>> /\ ~JSLess(cache[1].expiresAt, Num(now)) /\ ~cache[1].expiresAt.nan

\* if (cachedToken && Date.now() < cachedToken.expiresAt)
FedExCacheValid(cache) == cache # <<>> /\ JSLess(Num(now), cache[1].expiresAt)

\* track(trackingNumber) up to its first await: getAccessToken(config) returns the
\* cached token, or sends its own token request.
FedExTrack(c, k, tn) ==
    /\ NextToArrive(c, "fedex")
    /\ LET started == [calls EXCEPT ![c].adapter = "fedex", ![c].config = k, ![c].tn = tn]
       IN
       IF FedExCacheValid(FedExCacheFor(k))
       THEN /\ calls' = SendTracking(started, c, FedExCacheFor(k)[1].token)
            /\ UNCHANGED tokenReqs
       ELSE /\ tokenReqs' = Append(tokenReqs,
                    [adapter |-> "fedex", config |-> k, state |-> "fetch",
                     token |-> UndefinedToken])
            /\ calls' = [started EXCEPT ![c].pc = "awaitToken",
                                        ![c].req = Len(tokenReqs) + 1]
    /\ UNCHANGED <<registryVars, fnVars>>
    /\ UNCHANGED <<now, upsCachedToken, upsTokenPromise, fedexCachedToken,
                   legacyCachedToken, ticks>>

\* if (!res.ok) throw new Error(`FedEx auth failed: ...`)
\* (the await res.text() inside the message touches no state and is not a step)
FedExTokenResponse(c, ok) ==
    /\ calls[c].adapter = "fedex"
    /\ calls[c].pc = "awaitToken"
    /\ tokenReqs[calls[c].req].state = "fetch"
    /\ IF ok
       THEN /\ tokenReqs' = [tokenReqs EXCEPT ![calls[c].req].state = "json"]
            /\ UNCHANGED calls
       ELSE /\ tokenReqs' = [tokenReqs EXCEPT ![calls[c].req].state = "rejected"]
            /\ calls' = Fail(c, "AuthError")
    /\ UNCHANGED <<registryVars, fnVars>>
    /\ UNCHANGED <<now, upsCachedToken, upsTokenPromise, fedexCachedToken,
                   legacyCachedToken, ticks>>

\* const data = await res.json(); cachedToken = {...}; return cachedToken.token;
\* then track() sends the tracking request with that token.
FedExTokenBody(c, body) ==
    /\ calls[c].adapter = "fedex"
    /\ calls[c].pc = "awaitToken"
    /\ tokenReqs[calls[c].req].state = "json"
    /\ body \in TokenBodies(calls[c].config, calls[c].req)
    /\ fedexCachedToken' =
          << [token |-> body.access_token, expiresAt |-> FedExExpiresAt(body)] >>
    /\ tokenReqs' = [tokenReqs EXCEPT ![calls[c].req].state = "fulfilled",
                                      ![calls[c].req].token = body.access_token]
    /\ calls' = SendTracking(calls, c, body.access_token)
    /\ UNCHANGED <<registryVars, fnVars>>
    /\ UNCHANGED <<now, upsCachedToken, upsTokenPromise, legacyCachedToken, ticks>>

\* if (!res.ok) throw new Error(`FedEx tracking failed`)
\* const result = ...trackResults?.[0]; if (!result) throw new Error(`No tracking data`)
\* return { carrier: 'fedex', trackingNumber, status, estimatedDelivery, events }
\* (the await res.json() between the two checks touches no state and is not a step)
FedExTrackingResponse(c, resp) ==
    /\ calls[c].adapter = "fedex"
    /\ calls[c].pc = "trackFetch"
    /\ resp \in TrackingResponses
    /\ calls' = CASE resp = "error status" -> Fail(c, "UpstreamError")
                  [] resp = "no data" -> Fail(c, "NotFound")
                  [] OTHER -> Return(c)
    /\ UNCHANGED <<registryVars, fnVars>>
    /\ UNCHANGED <<now, upsCachedToken, upsTokenPromise, fedexCachedToken,
                   legacyCachedToken, tokenReqs, ticks>>

\* ======================================== UPS, src/carriers/ups.ts (module cache)
\* expiresAt: Date.now() + (Number(data.expires_in) - 60) * 1000
LegacyExpiresAt(body) ==
    JSAdd(Num(now), JSMul(JSAdd(JSNumber(body.expires_in), Num(-SAFETY_MARGIN)),
                          Num(MS_PER_SECOND)))

\* getAccessToken(config) reads the module's cachedToken, whatever the instance.
LegacyCacheFor(k) == legacyCachedToken

\* if (cachedToken && Date.now() < cachedToken.expiresAt)
LegacyCacheValid(cache) == cache # <<>> /\ JSLess(Num(now), cache[1].expiresAt)

\* track(trackingNumber) starts with getAccessToken(config): there is no check of
\* trackingNumber in this file.
LegacyInvalidTrackingNumber(tn) == FALSE

LegacyTrack(c, k, tn) ==
    /\ NextToArrive(c, "ups_legacy")
    /\ LET started == [calls EXCEPT ![c].adapter = "ups_legacy", ![c].config = k,
                                    ![c].tn = tn]
       IN
       IF LegacyInvalidTrackingNumber(tn)
       THEN /\ calls' = Finish(started, c, "failed", "InvalidInput")
            /\ UNCHANGED tokenReqs
       ELSE IF LegacyCacheValid(LegacyCacheFor(k))
       THEN /\ calls' = SendTracking(started, c, LegacyCacheFor(k)[1].token)
            /\ UNCHANGED tokenReqs
       ELSE /\ tokenReqs' = Append(tokenReqs,
                    [adapter |-> "ups_legacy", config |-> k, state |-> "fetch",
                     token |-> UndefinedToken])
            /\ calls' = [started EXCEPT ![c].pc = "awaitToken",
                                        ![c].req = Len(tokenReqs) + 1]
    /\ UNCHANGED <<registryVars, fnVars>>
    /\ UNCHANGED <<now, upsCachedToken, upsTokenPromise, fedexCachedToken,
                   legacyCachedToken, ticks>>

\* if (!res.ok) throw new Error(`UPS auth failed: ...`)
LegacyTokenResponse(c, ok) ==
    /\ calls[c].adapter = "ups_legacy"
    /\ calls[c].pc = "awaitToken"
    /\ tokenReqs[calls[c].req].state = "fetch"
    /\ IF ok
       THEN /\ tokenReqs' = [tokenReqs EXCEPT ![calls[c].req].state = "json"]
            /\ UNCHANGED calls
       ELSE /\ tokenReqs' = [tokenReqs EXCEPT ![calls[c].req].state = "rejected"]
            /\ calls' = Fail(c, "AuthError")
    /\ UNCHANGED <<registryVars, fnVars>>
    /\ UNCHANGED <<now, upsCachedToken, upsTokenPromise, fedexCachedToken,
                   legacyCachedToken, ticks>>

\* const data = await res.json(); cachedToken = {...}; return cachedToken.token;
LegacyTokenBody(c, body) ==
    /\ calls[c].adapter = "ups_legacy"
    /\ calls[c].pc = "awaitToken"
    /\ tokenReqs[calls[c].req].state = "json"
    /\ body \in TokenBodies(calls[c].config, calls[c].req)
    /\ legacyCachedToken' =
          << [token |-> body.access_token, expiresAt |-> LegacyExpiresAt(body)] >>
    /\ tokenReqs' = [tokenReqs EXCEPT ![calls[c].req].state = "fulfilled",
                                      ![calls[c].req].token = body.access_token]
    /\ calls' = SendTracking(calls, c, body.access_token)
    /\ UNCHANGED <<registryVars, fnVars>>
    /\ UNCHANGED <<now, upsCachedToken, upsTokenPromise, fedexCachedToken, ticks>>

\* if (!res.ok) throw new Error(`UPS tracking failed`)
\* const pkg = shipment?.package?.[0]; if (!pkg) throw new Error(`No tracking data`)
\* return { carrier: 'ups', trackingNumber, status, estimatedDelivery, events }
\* (the await res.json() between the two checks touches no state and is not a step)
LegacyTrackingResponse(c, resp) ==
    /\ calls[c].adapter = "ups_legacy"
    /\ calls[c].pc = "trackFetch"
    /\ resp \in TrackingResponses
    /\ calls' = CASE resp = "error status" -> Fail(c, "UpstreamError")
                  [] resp = "no data" -> Fail(c, "NotFound")
                  [] OTHER -> Return(c)
    /\ UNCHANGED <<registryVars, fnVars>>
    /\ UNCHANGED <<now, upsCachedToken, upsTokenPromise, fedexCachedToken,
                   legacyCachedToken, tokenReqs, ticks>>

\* ================================================ Nova Poshta (static API key)
\* if (!trackingNumber || trackingNumber.length > 50)
NPInvalidTrackingNumber(tn) == tn = 0 \/ tn > TRACKING_NUMBER_MAX

\* track(trackingNumber) up to its first await: the guard, then the API request.
NPTrack(c, k, tn) ==
    /\ NextToArrive(c, "nova_poshta")
    /\ LET started == [calls EXCEPT ![c].adapter = "nova_poshta", ![c].config = k,
                                    ![c].tn = tn]
       IN calls' = IF NPInvalidTrackingNumber(tn)
                   THEN Finish(started, c, "failed", "InvalidInput")
                   ELSE SendTracking(started, c, UndefinedToken)
    /\ UNCHANGED <<registryVars, fnVars>>
    /\ UNCHANGED <<now, upsCachedToken, upsTokenPromise, fedexCachedToken,
                   legacyCachedToken, tokenReqs, ticks>>

\* Answers of the Nova Poshta API: a non-success status; success: false;
\* success with data = []; success with a document.
NPResponses == {"error status", "unsuccessful", "no data", "data"}

\* if (!res.ok) throw; if (!data.success) throw;
\* const tracking = data.data[0]; if (!tracking) throw; return {...}
\* (the await res.json() between the checks touches no state and is not a step)
NPTrackingResponse(c, resp) ==
    /\ calls[c].adapter = "nova_poshta"
    /\ calls[c].pc = "trackFetch"
    /\ resp \in NPResponses
    /\ calls' = CASE resp \in {"error status", "unsuccessful"} -> Fail(c, "UpstreamError")
                  [] resp = "no data" -> Fail(c, "NotFound")
                  [] OTHER -> Return(c)
    /\ UNCHANGED <<registryVars, fnVars>>
    /\ UNCHANGED <<now, upsCachedToken, upsTokenPromise, fedexCachedToken,
                   legacyCachedToken, tokenReqs, ticks>>

\* ====================================================================== clock
Tick ==
    /\ ticks < MaxTicks
    /\ ticks' = ticks + 1
    /\ now' = now + TickMs
    /\ UNCHANGED <<registryVars, fnVars>>
    /\ UNCHANGED <<upsCachedToken, upsTokenPromise, fedexCachedToken,
                   legacyCachedToken, tokenReqs, calls>>

NextUPS ==
    \/ \E c \in Calls, k \in Configs, tn \in TrackingNumberLengths : UPSTrack(c, k, tn)
    \/ \E r \in DOMAIN tokenReqs, ok \in BOOLEAN : UPSTokenResponse(r, ok)
    \/ \E r \in DOMAIN tokenReqs :
          \E body \in TokenBodies(tokenReqs[r].config, r) : UPSTokenBody(r, body)
    \/ \E c \in Calls : UPSTokenResolved(c)
    \/ \E c \in Calls, resp \in TrackingResponses : UPSTrackingResponse(c, resp)
    \/ Tick

NextFedEx ==
    \/ \E c \in Calls, k \in Configs, tn \in FedExTrackingNumberLengths : FedExTrack(c, k, tn)
    \/ \E c \in Calls, ok \in BOOLEAN : FedExTokenResponse(c, ok)
    \/ \E c \in Calls :
          \E body \in TokenBodies(calls[c].config, calls[c].req) : FedExTokenBody(c, body)
    \/ \E c \in Calls, resp \in TrackingResponses : FedExTrackingResponse(c, resp)
    \/ Tick

NextLegacy ==
    \/ \E c \in Calls, k \in Configs, tn \in TrackingNumberLengths : LegacyTrack(c, k, tn)
    \/ \E c \in Calls, ok \in BOOLEAN : LegacyTokenResponse(c, ok)
    \/ \E c \in Calls :
          \E body \in TokenBodies(calls[c].config, calls[c].req) : LegacyTokenBody(c, body)
    \/ \E c \in Calls, resp \in TrackingResponses : LegacyTrackingResponse(c, resp)
    \/ Tick

NextNP ==
    \/ \E c \in Calls, k \in Configs, tn \in TrackingNumberLengths : NPTrack(c, k, tn)
    \/ \E c \in Calls, resp \in NPResponses : NPTrackingResponse(c, resp)
    \/ Tick

\* The createUPSCarrier adapter with the closure cache.
SpecUPS == Init /\ [][NextUPS]_vars
\* The FedEx adapter.
SpecFedEx == Init /\ [][NextFedEx]_vars
\* The UPS adapter of src/carriers/ups.ts.
SpecLegacyUPS == Init /\ [][NextLegacy]_vars
\* The Nova Poshta adapter.
SpecNovaPoshta == Init /\ [][NextNP]_vars
\* The two OAuth adapters the server registers.
NextOAuth == NextUPS \/ NextFedEx
SpecOAuth == Init /\ [][NextOAuth]_vars
\* Every adapter.
Next == NextUPS \/ NextFedEx \/ NextLegacy \/ NextNP
Spec == Init /\ [][Next]_vars

\* ============================================================ CarrierRegistry
\* export type CarrierCode
CarrierCodes == {"fedex", "ups", "dhl", "usps", "nova_poshta"}

\* Carrier objects: two distinct adapters for every code.
CarrierObjects == { [code |-> code, id |-> id] : code \in CarrierCodes, id \in {1, 2} }

\* Map.prototype.has / get / set / keys on a Map kept as its entries in insertion
\* order.  get of an absent key is undefined (<<>>).
MapHas(m, key) == \E i \in DOMAIN m : m[i].key = key
MapGet(m, key) ==
    IF MapHas(m, key) THEN << m[CHOOSE i \in DOMAIN m : m[i].key = key].value >> ELSE <<>>

\* Mutant: set() adds an entry even when the key is present.
MapSet_AlwaysAppends(m, key, value) == Append(m, [key |-> key, value |-> value])

\* set() of a present key replaces its value and keeps its place.
MapSet(m, key, value) ==
    IF MapHas(m, key)
    THEN [i \in DOMAIN m |-> IF m[i].key = key THEN [key |-> key, value |-> value] ELSE m[i]]
    ELSE Append(m, [key |-> key, value |-> value])
MapKeys(m) == [i \in DOMAIN m |-> m[i].key]

\* register(carrier): this.carriers.set(carrier.code, carrier)
Register(carrier) ==
    /\ Len(registered) < MaxRegistrations
    /\ carriers' = MapSet(carriers, carrier.code, carrier)
    /\ registered' = Append(registered, carrier)
    /\ UNCHANGED <<adapterVars, fnVars>>

\* get(code): this.carriers.get(code)
RegistryGet(code) == MapGet(carriers, code)

\* list(): [...this.carriers.keys()]
RegistryList == MapKeys(carriers)

NextRegistry == \E carrier \in CarrierObjects : Register(carrier)

SpecRegistry == Init /\ [][NextRegistry]_vars

\* ============================================================= status mappers
\* export type TrackingStatus
TrackingStatuses ==
    {"pending", "picked_up", "in_transit", "out_for_delivery", "delivered",
     "exception", "unknown"}

\* An object literal inherits from Object.prototype: these keys are found by
\* `key in obj` and by obj[key] on every such object.
ObjectPrototype ==
    [constructor |-> "[Function: Object]",
     toString |-> "[Function: toString]",
     valueOf |-> "[Function: valueOf]",
     hasOwnProperty |-> "[Function: hasOwnProperty]",
     __proto__ |-> "[Object: null prototype] {}"]

\* key in obj
JSIn(key, obj) == key \in DOMAIN obj \/ key \in DOMAIN ObjectPrototype

\* obj[key]
JSGet(obj, key) ==
    IF key \in DOMAIN obj THEN obj[key]
    ELSE IF key \in DOMAIN ObjectPrototype THEN ObjectPrototype[key]
    ELSE "undefined"

\* v ?? d
JSCoalesce(v, d) == IF v = "undefined" THEN d ELSE v

\* mapUPSStatus: typeMap, codeMap
UPSTypeMap ==
    [D |-> "delivered", I |-> "in_transit", P |-> "picked_up", M |-> "pending",
     O |-> "out_for_delivery", X |-> "exception"]
UPSCodeMap ==
    [SR |-> "pending", MP |-> "pending", DP |-> "in_transit", AR |-> "in_transit",
     IT |-> "in_transit", OT |-> "out_for_delivery", DL |-> "delivered",
     RS |-> "exception", DN |-> "exception", NA |-> "exception"]

mapUPSStatus(statusCode, statusType) ==
    IF JSIn(statusType, UPSTypeMap)
    THEN JSGet(UPSTypeMap, statusType)
    ELSE JSCoalesce(JSGet(UPSCodeMap, statusCode), "unknown")

\* mapFedExStatus: map
FedExStatusMap ==
    [PU |-> "picked_up", IT |-> "in_transit", OD |-> "out_for_delivery",
     DL |-> "delivered", DE |-> "exception", SE |-> "exception"]

mapFedExStatus(statusCode) == JSCoalesce(JSGet(FedExStatusMap, statusCode), "unknown")

mapNovaPoshtaStatus(statusCode) ==
    IF statusCode = 1 THEN "pending"
    ELSE IF statusCode = 2 THEN "exception"
    ELSE IF statusCode = 3 THEN "unknown"
    ELSE IF statusCode >= 4 /\ statusCode <= 8 THEN "in_transit"
    ELSE IF statusCode >= 9 /\ statusCode <= 12 THEN "delivered"
    ELSE IF statusCode = 41 THEN "in_transit"
    ELSE IF statusCode = 101 THEN "out_for_delivery"
    ELSE IF statusCode = 102 \/ statusCode = 103 THEN "exception"
    ELSE IF statusCode = 104 THEN "in_transit"
    ELSE IF statusCode = 105 \/ statusCode = 106 THEN "exception"
    ELSE IF statusCode = 111 THEN "exception"
    ELSE IF statusCode = 112 THEN "in_transit"
    ELSE "unknown"

\* Status strings a carrier may send: every key of the tables, the empty string,
\* strings in no table, and strings that name a member of Object.prototype.
OtherStrings == {"", "ZZ", "constructor", "toString"}
UPSStatusInputs ==
    { [fn |-> "mapUPSStatus", code |-> code, type |-> type, num |-> 0] :
        code \in DOMAIN UPSCodeMap \cup OtherStrings,
        type \in DOMAIN UPSTypeMap \cup OtherStrings }
FedExStatusInputs ==
    { [fn |-> "mapFedExStatus", code |-> code, type |-> "", num |-> 0] :
        code \in DOMAIN FedExStatusMap \cup OtherStrings }
NovaPoshtaStatusInputs ==
    { [fn |-> "mapNovaPoshtaStatus", code |-> "", type |-> "", num |-> n] :
        n \in (-1)..MaxStatusCode }

CallMapUPSStatus ==
    /\ fnOut = <<>>
    /\ fnIn.fn = "mapUPSStatus"
    /\ fnOut' = << mapUPSStatus(fnIn.code, fnIn.type) >>
    /\ UNCHANGED <<adapterVars, registryVars, fnIn>>

CallMapFedExStatus ==
    /\ fnOut = <<>>
    /\ fnIn.fn = "mapFedExStatus"
    /\ fnOut' = << mapFedExStatus(fnIn.code) >>
    /\ UNCHANGED <<adapterVars, registryVars, fnIn>>

CallMapNovaPoshtaStatus ==
    /\ fnOut = <<>>
    /\ fnIn.fn = "mapNovaPoshtaStatus"
    /\ fnOut' = << mapNovaPoshtaStatus(fnIn.num) >>
    /\ UNCHANGED <<adapterVars, registryVars, fnIn>>

InitStatus ==
    /\ InitAdapters /\ InitRegistry
    /\ fnIn \in UPSStatusInputs \cup FedExStatusInputs \cup NovaPoshtaStatusInputs
    /\ fnOut = <<>>

NextStatus == CallMapUPSStatus \/ CallMapFedExStatus \/ CallMapNovaPoshtaStatus

SpecStatus == InitStatus /\ [][NextStatus]_vars

\* ===================================================== FedEx track(): the result
\* An optional JSON field is <<>> when absent (or null) and <<value>> when present.
\* One entry of scanEvents, and one entry of dateAndTimes ({type, dateTime}: none
\* of the fields parseEvents reads).
ScanEvent ==
    [date |-> <<"2024-01-15T10:00:00">>, eventTimestamp |-> <<>>,
     derivedStatusCode |-> <<"DL">>, eventType |-> <<"DL">>,
     scanLocation |-> << [city |-> <<"Memphis">>, stateOrProvinceCode |-> <<>>,
                          countryCode |-> <<"US">>] >>,
     eventDescription |-> <<"Delivered">>, description |-> <<>>]
DateAndTime ==
    [date |-> <<>>, eventTimestamp |-> <<>>, derivedStatusCode |-> <<>>,
     eventType |-> <<>>, scanLocation |-> <<>>, eventDescription |-> <<>>,
     description |-> <<>>]

LatestStatusDetails ==
    {<<>>} \cup
    { << [derivedCode |-> d, statusCode |-> c] >> :
        d \in {<<>>, <<"DL">>, <<"IT">>}, c \in {<<>>, <<"DL">>, <<"PU">>} }
DeliveryWindows ==
    { <<>>, << [window |-> <<>>] >>, << [window |-> << [ends |-> <<>>] >>] >>,
      << [window |-> << [ends |-> <<"2024-01-20T17:00:00">>] >>] >> }

\* data.output.completeTrackResults[0].trackResults[0] of a successful response
FedExTrackResults ==
    { [fn |-> "fedexResult", latestStatusDetail |-> l, scanEvents |-> se,
       dateAndTimes |-> dt, estimatedDeliveryTimeWindow |-> w] :
        l \in LatestStatusDetails,
        se \in {<<>>, << <<>> >>, << <<ScanEvent>> >>},
        dt \in {<<>>, << <<>> >>, << <<DateAndTime>> >>},
        w \in DeliveryWindows }

\* a ?? b on optional fields
Coalesce(a, b) == IF a # <<>> THEN a ELSE b

\* [..].filter(Boolean).join(', ')
RECURSIVE JoinParts(_)
JoinParts(parts) ==
    IF parts = <<>> THEN ""
    ELSE LET rest == JoinParts(Tail(parts)) IN
         IF Head(parts) \in {<<>>, <<"">>} THEN rest
         ELSE IF rest = "" THEN Head(parts)[1]
         ELSE Head(parts)[1] \o ", " \o rest

\* parseEvents: one TrackingEvent for every entry, in order
FedExParseEvent(event) ==
    [timestamp |-> Coalesce(event.date, Coalesce(event.eventTimestamp, <<"">>))[1],
     status |-> mapFedExStatus(
                   Coalesce(event.derivedStatusCode, Coalesce(event.eventType, <<"">>))[1]),
     location |-> IF event.scanLocation = <<>> THEN ""
                  ELSE JoinParts(<< event.scanLocation[1].city,
                                    event.scanLocation[1].stateOrProvinceCode,
                                    event.scanLocation[1].countryCode >>),
     description |-> Coalesce(event.eventDescription,
                              Coalesce(event.description, <<"">>))[1]]
FedExParseEvents(scanEvents) ==
    [i \in DOMAIN scanEvents |-> FedExParseEvent(scanEvents[i])]

\* result.scanEvents ?? result.dateAndTimes ?? []
FedExEventsSource(result) ==
    Coalesce(result.scanEvents, Coalesce(result.dateAndTimes, << <<>> >>))[1]

\* Mutant: latestStatus?.statusCode ?? latestStatus?.derivedCode ?? ''
FedExLatestCode_StatusCodeFirst(result) ==
    IF result.latestStatusDetail = <<>> THEN ""
    ELSE Coalesce(result.latestStatusDetail[1].statusCode,
                  Coalesce(result.latestStatusDetail[1].derivedCode, <<"">>))[1]

\* latestStatus?.derivedCode ?? latestStatus?.statusCode ?? ''
FedExLatestCode(result) ==
    IF result.latestStatusDetail = <<>> THEN ""
    ELSE Coalesce(result.latestStatusDetail[1].derivedCode,
                  Coalesce(result.latestStatusDetail[1].statusCode, <<"">>))[1]

\* result.estimatedDeliveryTimeWindow?.window?.ends ?? null
FedExEstimatedDelivery(result) ==
    IF result.estimatedDeliveryTimeWindow = <<>> THEN "null"
    ELSE IF result.estimatedDeliveryTimeWindow[1].window = <<>> THEN "null"
    ELSE Coalesce(result.estimatedDeliveryTimeWindow[1].window[1].ends, <<"null">>)[1]

\* return { carrier: 'fedex', trackingNumber, status, estimatedDelivery, events }
FedExTrackingResult(result) ==
    [carrier |-> "fedex",
     status |-> mapFedExStatus(FedExLatestCode(result)),
     estimatedDelivery |-> FedExEstimatedDelivery(result),
     events |-> FedExParseEvents(FedExEventsSource(result))]

\* track() from `const latestStatus = result.latestStatusDetail` to its return.
CallFedExResult ==
    /\ fnOut = <<>>
    /\ fnIn.fn = "fedexResult"
    /\ fnOut' = << FedExTrackingResult(fnIn) >>
    /\ UNCHANGED <<adapterVars, registryVars, fnIn>>

InitFedExResult ==
    /\ InitAdapters /\ InitRegistry
    /\ fnIn \in FedExTrackResults
    /\ fnOut = <<>>

SpecFedExResult == InitFedExResult /\ [][CallFedExResult]_vars

\* ==================================================================== claims
\* Token requests of one adapter instance that the endpoint has not answered in
\* full: sent, or answered with a success status whose body is still being read.
Outstanding(adapter, k) ==
    { r \in DOMAIN tokenReqs :
        /\ tokenReqs[r].adapter = adapter /\ tokenReqs[r].config = k
        /\ tokenReqs[r].state \in {"fetch", "json"} }

\* Token requests of a whole module (every instance) not answered in full.
OutstandingOf(adapter) ==
    { r \in DOMAIN tokenReqs :
        tokenReqs[r].adapter = adapter /\ tokenReqs[r].state \in {"fetch", "json"} }

\* This step is an arrival that went past the guard and called getAccessToken().
AsksToken(c, a, k) ==
    /\ calls[c].pc = "idle" /\ calls'[c].pc \in {"awaitToken", "trackFetch"}
    /\ calls'[c].adapter = a /\ calls'[c].config = k

\* ------------------------------------------------------------------------ C1
C1_AtMostOneOutstanding ==
    \A k \in Configs : Cardinality(Outstanding("ups", k)) <= 1

C1_JoinsTheRefresh ==
    \A c \in Calls, k \in Configs :
        (AsksToken(c, "ups", k) /\ Outstanding("ups", k) # {}) =>
            /\ tokenReqs' = tokenReqs
            /\ calls'[c].pc = "awaitToken"
            /\ calls'[c].req \in Outstanding("ups", k)

C1_TakesItsOutcome ==
    \A c \in Calls :
        (calls[c].adapter = "ups" /\ calls[c].pc = "awaitToken" /\ calls'[c] # calls[c]) =>
            LET r == calls[c].req IN
            /\ tokenReqs' = tokenReqs
            /\ IF tokenReqs[r].state = "fulfilled"
               THEN /\ calls'[c].pc = "trackFetch"
                    /\ calls'[c].token = tokenReqs[r].token
                    /\ tokenReqs[r].token = IssuedToken(calls[c].config, r)
               ELSE /\ tokenReqs[r].state = "rejected"
                    /\ calls'[c].pc = "failed"
                    /\ calls'[c].outcome = "AuthError"

\* C1: for one createUPSCarrier instance, under every interleaving of track calls
\* and token-endpoint answers, at most one token request is outstanding at any
\* time, and a getAccessToken call that arrives while one is outstanding sends no
\* request, awaits that refresh and ends with its outcome: its token, or failure.
C1_SingleFlight ==
    [][/\ C1_AtMostOneOutstanding /\ C1_AtMostOneOutstanding'
       /\ C1_JoinsTheRefresh
       /\ C1_TakesItsOutcome]_vars

\* Two invocations of one instance shared request 1: the first has its token and
\* has sent its tracking request, the second still awaits the same promise.
C1_Witness ==
    \E c1, c2 \in Calls :
        /\ c1 # c2
        /\ calls[c1].adapter = "ups" /\ calls[c2].adapter = "ups"
        /\ calls[c1].config = calls[c2].config
        /\ Len(tokenReqs) = 1 /\ tokenReqs[1].state = "fulfilled"
        /\ calls[c1].pc = "trackFetch" /\ calls[c1].token = tokenReqs[1].token
        /\ calls[c2].pc = "awaitToken" /\ calls[c2].req = 1

\* ------------------------------------------------------------------------ C3
\* The step in which token request r of a UPS instance fails.
RefreshFails(r) ==
    /\ tokenReqs[r].adapter = "ups"
    /\ tokenReqs[r].state \in {"fetch", "json"}
    /\ tokenReqs'[r].state = "rejected"

C3_NothingStoredMarkerCleared ==
    \A r \in DOMAIN tokenReqs :
        RefreshFails(r) =>
            /\ upsCachedToken' = upsCachedToken
            /\ upsTokenPromise'[tokenReqs[r].config] = 0

C3_CacheHoldsOnlyGrantedTokens ==
    \A k \in Configs :
        upsCachedToken[k] # <<>> =>
            /\ upsCachedToken[k][1].token # UndefinedToken
            /\ tokenReqs[upsCachedToken[k][1].token.serial].state = "fulfilled"

C3_WaitersFail ==
    \A c \in Calls :
        (/\ calls[c].adapter = "ups" /\ calls[c].pc = "awaitToken"
         /\ tokenReqs[calls[c].req].state = "rejected"
         /\ calls'[c] # calls[c]) =>
            calls'[c].pc = "failed" /\ calls'[c].outcome = "AuthError"

C3_NextCallStartsAnew ==
    \A c \in Calls, k \in Configs :
        (AsksToken(c, "ups", k) /\ calls'[c].pc = "awaitToken") =>
            /\ tokenReqs'[calls'[c].req].state \in {"fetch", "json"}
            /\ Outstanding("ups", k) = {} =>
                  /\ Len(tokenReqs') = Len(tokenReqs) + 1
                  /\ calls'[c].req = Len(tokenReqs')

\* C3: when a UPS token refresh fails (non-success status, or a body without
\* access_token), every call awaiting it fails, nothing of it is stored in the
\* cache, the in-flight marker is cleared, and the next getAccessToken call
\* sends a new token request instead of getting the earlier failure.
C3_FailedRefreshIsTransactional ==
    [][/\ C3_NothingStoredMarkerCleared
       /\ C3_CacheHoldsOnlyGrantedTokens /\ C3_CacheHoldsOnlyGrantedTokens'
       /\ C3_WaitersFail
       /\ C3_NextCallStartsAnew]_vars

\* Request 1 failed and its caller got the failure; the next call of the same
\* instance found the cache empty and now awaits a request of its own.
C3_Witness ==
    \E c1, c2 \in Calls :
        /\ Len(tokenReqs) = 2
        /\ tokenReqs[1].adapter = "ups" /\ tokenReqs[1].state = "rejected"
        /\ tokenReqs[2].config = tokenReqs[1].config /\ tokenReqs[2].state = "fetch"
        /\ upsCachedToken[tokenReqs[1].config] = <<>>
        /\ calls[c1].pc = "failed" /\ calls[c1].outcome = "AuthError"
        /\ calls[c2].pc = "awaitToken" /\ calls[c2].req = 2

\* ------------------------------------------------------------------------ C4
\* A cached token exists and the current time is strictly before its expiresAt.
Fresh(cache) ==
    cache # <<>> /\ ~cache[1].expiresAt.nan /\ now < cache[1].expiresAt.v

\* The cache getAccessToken() of adapter a, instance k, reads.
CacheOf(a, k) == IF a = "ups" THEN upsCachedToken[k] ELSE fedexCachedToken

\* A token request that this cache is waiting for has not been answered in full.
InFlight(a, k) ==
    IF a = "ups" THEN Outstanding("ups", k) # {} ELSE OutstandingOf("fedex") # {}

C4_GetAccessToken ==
    \A c \in Calls, a \in {"ups", "fedex"}, k \in Configs :
        AsksToken(c, a, k) =>
            /\ (~InFlight(a, k) /\ Fresh(CacheOf(a, k))) =>
                  /\ tokenReqs' = tokenReqs
                  /\ calls'[c].pc = "trackFetch"
                  /\ calls'[c].token = CacheOf(a, k)[1].token
            /\ (~InFlight(a, k) /\ ~Fresh(CacheOf(a, k))) =>
                  /\ Len(tokenReqs') = Len(tokenReqs) + 1
                  /\ SubSeq(tokenReqs', 1, Len(tokenReqs)) = tokenReqs
                  /\ tokenReqs'[Len(tokenReqs')].adapter = a
                  /\ tokenReqs'[Len(tokenReqs')].config = k
                  /\ calls'[c].pc = "awaitToken"
                  /\ calls'[c].req = Len(tokenReqs')
            /\ calls'[c].pc = "trackFetch" =>
                  /\ Fresh(CacheOf(a, k))
                  /\ calls'[c].token = CacheOf(a, k)[1].token

\* C4: for FedEx and UPS, a getAccessToken call made while no refresh is in
\* flight sends no token request and returns the cached token when one exists
\* and the time is strictly before its expiresAt, and sends exactly one token
\* request otherwise; a cached token is never returned at or after its expiresAt.
C4_CacheHitOrOneRequest == [][C4_GetAccessToken]_vars

\* FedEx: the second call was served from the cache (one token request in all,
\* both calls hold its token), and the cache is still fresh.
C4_Witness ==
    /\ Len(tokenReqs) = 1
    /\ tokenReqs[1].adapter = "fedex" /\ tokenReqs[1].state = "fulfilled"
    /\ Fresh(fedexCachedToken)
    /\ \A c \in {1, 2} :
          /\ calls[c].adapter = "fedex" /\ calls[c].pc = "trackFetch"
          /\ calls[c].token = fedexCachedToken[1].token

\* ------------------------------------------------------------------------ C2
\* C2: two concurrent FedEx getAccessToken calls issued when no valid token is
\* cached make one request to the token endpoint and share its token: calls of
\* one adapter that wait for a token wait for the same, single request.
C2_FedExSingleFlight ==
    \A k \in Configs :
        /\ Cardinality(Outstanding("fedex", k)) <= 1
        /\ \A c1, c2 \in Calls :
              (/\ calls[c1].adapter = "fedex" /\ calls[c2].adapter = "fedex"
               /\ calls[c1].config = k /\ calls[c2].config = k
               /\ calls[c1].pc = "awaitToken" /\ calls[c2].pc = "awaitToken") =>
                  calls[c1].req = calls[c2].req

\* ------------------------------------------------------------------------ C5
OAuthAdapters == {"fedex", "ups", "ups_legacy"}

\* C5: the cached token belongs to one adapter instance: the bearer token a
\* track call of an instance sends was issued for that instance's credentials,
\* never fetched by another instance of the same factory.
C5_TokenStaysWithItsInstance ==
    \A c \in Calls :
        (/\ calls[c].adapter \in OAuthAdapters
         /\ calls[c].pc = "trackFetch"
         /\ calls[c].token # UndefinedToken) =>
            calls[c].token.cred = calls[c].config

\* ------------------------------------------------------------------------ C6
\* C6: when the FedEx token endpoint answers with a success status and no access
\* token, getAccessToken fails: nothing is stored in the cache and track sends
\* no tracking request.
C6_FedExRejectsMissingToken ==
    /\ fedexCachedToken # <<>> => fedexCachedToken[1].token # UndefinedToken
    /\ \A c \in Calls :
          (calls[c].adapter = "fedex" /\ calls[c].pc = "trackFetch") =>
              calls[c].token # UndefinedToken

\* ------------------------------------------------------------------------ C7
GuardedAdapters == {"ups", "ups_legacy", "nova_poshta"}

\* Empty, or longer than 50 characters.
InvalidLength(tn) == tn < 1 \/ tn > 50

C7_Guard ==
    \A c \in Calls :
        (calls[c].pc = "idle" /\ calls'[c].pc # "idle"
         /\ calls'[c].adapter \in GuardedAdapters) =>
            IF InvalidLength(calls'[c].tn)
            THEN /\ calls'[c].pc = "failed"
                 /\ calls'[c].outcome = "InvalidInput"
                 /\ tokenReqs' = tokenReqs
                 /\ \A d \in Calls \ {c} : calls'[d] = calls[d]
                 /\ UNCHANGED <<upsCachedToken, upsTokenPromise, legacyCachedToken>>
            ELSE calls'[c].outcome # "InvalidInput"

\* C7: UPS and Nova Poshta track() with an empty tracking number or one longer
\* than 50 characters fails with an invalid-input error, sends no request (token
\* or tracking) and leaves the token cache and the in-flight marker unchanged; a
\* tracking number of 1 to 50 characters is never rejected by the guard.
C7_InvalidTrackingNumberRejected == [][C7_Guard]_vars

\* ------------------------------------------------------------------------ C8
\* The carrier of the most recent register() call with this code, <<>> if none.
LastRegistered(code) ==
    LET at == { i \in DOMAIN registered : registered[i].code = code }
    IN IF at = {} THEN <<>>
       ELSE << registered[CHOOSE i \in at : \A j \in at : j <= i] >>

\* C8: after any sequence of register calls, get(code) returns the carrier of the
\* most recent register call with that code (undefined if there was none), and
\* list() holds each registered code exactly once.
C8_LastRegistrationWins ==
    \A code \in CarrierCodes :
        /\ RegistryGet(code) = LastRegistered(code)
        /\ Cardinality({ i \in DOMAIN RegistryList : RegistryList[i] = code })
              = IF LastRegistered(code) = <<>> THEN 0 ELSE 1

\* One code was registered twice, with two different carriers.
C8_Witness ==
    /\ Len(registered) = 2
    /\ registered[1].code = registered[2].code
    /\ registered[1] # registered[2]
    /\ RegistryGet(registered[1].code) = << registered[2] >>
    /\ RegistryList = << registered[1].code >>

\* ------------------------------------------------------------------------ C9
\* The input is matched by a rule of its mapper.
Matched(in) ==
    CASE in.fn = "mapUPSStatus" ->
            in.type \in DOMAIN UPSTypeMap \/ in.code \in DOMAIN UPSCodeMap
      [] in.fn = "mapFedExStatus" -> in.code \in DOMAIN FedExStatusMap
      [] OTHER -> in.num \in (1..12) \cup {41, 101, 102, 103, 104, 105, 106, 111, 112}

\* C9: for every input, the empty string and values of none of the tables
\* included, a status mapper returns one of the seven TrackingStatus values, and
\* 'unknown' for an input that no rule matches.
C9_MapperTotal ==
    fnOut # <<>> =>
        /\ fnOut[1] \in TrackingStatuses
        /\ ~Matched(fnIn) => fnOut[1] = "unknown"

\* ----------------------------------------------------------------------- C10
\* The track result has latestStatusDetail.derivedCode = "DL".
DerivedCodeDL(result) ==
    /\ result.latestStatusDetail # <<>>
    /\ result.latestStatusDetail[1].derivedCode = <<"DL">>

\* estimatedDeliveryTimeWindow.window.ends when present, null otherwise.
WindowEndsOrNull(result) ==
    IF /\ result.estimatedDeliveryTimeWindow # <<>>
       /\ result.estimatedDeliveryTimeWindow[1].window # <<>>
       /\ result.estimatedDeliveryTimeWindow[1].window[1].ends # <<>>
    THEN result.estimatedDeliveryTimeWindow[1].window[1].ends[1]
    ELSE "null"

DeliveredNoEvents(out, result) ==
    /\ out.status = "delivered"
    /\ out.events = <<>>
    /\ out.estimatedDelivery = WindowEndsOrNull(result)

\* C10 as stated: every successful FedEx response whose track result has
\* derivedCode "DL" and no scanEvents, whatever its other fields, gives status
\* 'delivered', no events, and estimatedDelivery from window.ends or null.
C10_DeliveredWithoutScanEvents ==
    (fnOut # <<>> /\ DerivedCodeDL(fnIn) /\ fnIn.scanEvents = <<>>) =>
        DeliveredNoEvents(fnOut[1], fnIn)

\* C10 amended: as above for a track result that has neither scanEvents nor
\* dateAndTimes; with dateAndTimes present, events has one entry for each of its
\* entries.
C10_DeliveredWithoutEventSource ==
    (fnOut # <<>> /\ DerivedCodeDL(fnIn) /\ fnIn.scanEvents = <<>>) =>
        /\ fnOut[1].status = "delivered"
        /\ fnOut[1].estimatedDelivery = WindowEndsOrNull(fnIn)
        /\ fnIn.dateAndTimes = <<>> => fnOut[1].events = <<>>
        /\ fnIn.dateAndTimes # <<>> => Len(fnOut[1].events) = Len(fnIn.dateAndTimes[1])

\* A delivered result without scanEvents and dateAndTimes, with a statusCode that
\* differs from derivedCode and a delivery window, has been composed.
C10_Witness ==
    /\ fnOut # <<>>
    /\ DerivedCodeDL(fnIn)
    /\ fnIn.latestStatusDetail[1].statusCode = <<"PU">>
    /\ fnIn.scanEvents = <<>> /\ fnIn.dateAndTimes = <<>>
    /\ fnIn.estimatedDeliveryTimeWindow # <<>>
    /\ fnOut[1].estimatedDelivery # "null"
    /\ fnOut[1].events = <<>>

\* ----------------------------------------------------------------------- C11
\* In this step invocation c sends its request to the tracking endpoint.
SendsTracking(c) == calls[c].pc # "trackFetch" /\ calls'[c].pc = "trackFetch"

\* In this step a request is sent to a token endpoint.
SendsTokenRequest == Len(tokenReqs') # Len(tokenReqs)

\* A failed invocation has a failure and no TrackingResult, and stays as it is.
C11_FailureIsFinal ==
    \A c \in Calls :
        /\ calls[c].pc = "failed" =>
              /\ calls[c].outcome \notin {"none", "TrackingResult"}
              /\ calls'[c] = calls[c]
        /\ calls'[c].outcome = "TrackingResult" <=> calls'[c].pc = "returned"

\* The step in which an invocation fails sends nothing.
C11_FailingStepSendsNothing ==
    \A c \in Calls :
        (calls[c].pc # "failed" /\ calls'[c].pc = "failed") =>
            /\ ~SendsTokenRequest
            /\ \A d \in Calls : ~SendsTracking(d)

\* Nothing is retried: a token request is sent only by an invocation that
\* arrives, a tracking request only by one that has not sent one, and an
\* invocation whose tracking request was answered ends.
C11_NoRetry ==
    /\ SendsTokenRequest =>
          /\ Len(tokenReqs') = Len(tokenReqs) + 1
          /\ \E c \in Calls :
                /\ calls[c].pc = "idle" /\ calls'[c].pc = "awaitToken"
                /\ calls'[c].req = Len(tokenReqs')
    /\ \A c \in Calls :
          /\ SendsTracking(c) => calls[c].pc \in {"idle", "awaitToken"}
          /\ (calls[c].pc = "awaitToken" /\ calls'[c] # calls[c]) =>
                calls'[c].pc \in {"trackFetch", "failed"}
          /\ (calls[c].pc = "trackFetch" /\ calls'[c] # calls[c]) =>
                calls'[c].pc \in {"returned", "failed"}
          /\ calls[c].pc = "returned" => calls'[c] = calls[c]

\* An OAuth adapter sends the tracking request with a token it obtained, and
\* never once the token request it awaits has failed.
C11_TrackingOnlyWithToken ==
    \A c \in Calls :
        /\ (SendsTracking(c) /\ calls'[c].adapter \in OAuthAdapters) =>
              calls'[c].token # UndefinedToken
        /\ (calls[c].pc = "awaitToken" /\ tokenReqs'[calls[c].req].state = "rejected") =>
              ~SendsTracking(c)

\* What C11 says of failures, apart from the token a tracking request carries.
C11_FailurePropagates ==
    [][C11_FailureIsFinal /\ C11_FailingStepSendsNothing /\ C11_NoRetry]_vars

\* C11: for every adapter, a track invocation that fails at any step (token
\* acquisition, a non-success status from the tracking endpoint, a response
\* without data) ends in a failure with no TrackingResult and sends no request
\* after the failing step; no request is retried; an OAuth adapter sends the
\* tracking request only after a token was obtained, so a failed token
\* acquisition is followed by no tracking request.
C11_FailFast ==
    [][/\ C11_FailureIsFinal
       /\ C11_FailingStepSendsNothing
       /\ C11_NoRetry
       /\ C11_TrackingOnlyWithToken]_vars
====
